---------------------------- MODULE Spec2Model ----------------------------
(***************************************************************************)
(* Brick-breaker game of src/main.js: the game-flow state machine, the     *)
(* pointer/keyboard handlers, the frame loop and the circle-rectangle      *)
(* collision code.                                                         *)
(*                                                                         *)
(* Numbers.  The program computes with IEEE doubles.  The model computes   *)
(* with fixed-point numbers: a length is a whole number of sub-pixels      *)
(* (SUB to the pixel), a velocity a whole number of sub-pixels per second, *)
(* a time a whole number of time units (TPS to the second).  With SUB = 6  *)
(* and TPS = 120 every constant of the program (the half pixel of the      *)
(* collision push, the 38.5 px bricks, the serve velocities times a frame  *)
(* of 1/60 or 1/30 s, the paddle bounce 420 * hit) is exact; the two       *)
(* products that are not (velocity * dt after a paddle bounce, the paddle  *)
(* smoothing) are rounded to the nearest sub-pixel, as the program rounds  *)
(* them to the nearest double.                                             *)
(***************************************************************************)
EXTENDS Integers, Sequences, FiniteSets

VARIABLES
    state,      \* main.js:19   'menu' | 'playing' | 'paused' | 'win' | 'lose'
    score,      \* main.js:20
    lives,      \* main.js:21
    paddle,     \* main.js:24   [x, y, w, h, targetX]
    ball,       \* main.js:25   [x, y, vx, vy, r]
    bricks,     \* main.js:26   sequence of [x, y, w, h, active]
    input,      \* main.js:29   [pointerActive, pointerX, grabOffset]
    last,       \* history: the handler that ran last, its argument, the state before it
    free        \* environment: number of inputs and frames so far that were not the player's

prog == <<state, score, lives, paddle, ball, bricks, input>>
vars == <<state, score, lives, paddle, ball, bricks, input, last, free>>

(***************************************************************************)
(* Units and program constants.                                            *)
(***************************************************************************)
SUB == 2 * 3                 \* sub-pixels per pixel
TPS == 4 * 30                \* time units per second
Px(n) == n * SUB             \* n pixels
Half == SUB \div 2           \* half a pixel

GAME_W == 360
GAME_H == 640
BALL_SPEED_X == 180
BALL_SPEED_Y == 260
MAX_DT == TPS \div 30        \* 1/30 s
PADDLE_SMOOTHING == 20

\* a / b rounded to the nearest whole number (b > 0)
RoundDiv(a, b) == (2 * a + b) \div (2 * b)
Abs(v) == IF v < 0 THEN -v ELSE v
Min2(a, b) == IF a < b THEN a ELSE b
Max2(a, b) == IF a > b THEN a ELSE b

\* a faulty variant of clamp: no lower bound
clampNoLow(v, lo, hi) == Min2(hi, v)

\* main.js:56-58
clamp(v, lo, hi) == Max2(lo, Min2(hi, v))

(***************************************************************************)
(* Construction (main.js:19-33).                                           *)
(***************************************************************************)
paddle0 == [x |-> Px(GAME_W) \div 2 - Px(30), y |-> Px(GAME_H) - Px(40),
            w |-> Px(60), h |-> Px(10), targetX |-> Px(GAME_W) \div 2 - Px(30)]
ball0 == [x |-> Px(GAME_W) \div 2, y |-> Px(GAME_H) - Px(60),
          vx |-> Px(160), vy |-> -Px(240), r |-> Px(6)]
input0 == [pointerActive |-> FALSE, pointerX |-> 0, grabOffset |-> 0]

(***************************************************************************)
(* resetBallOnPaddle (main.js:69-76).  dir is the outcome of               *)
(* Math.random() > 0.5 ? 1 : -1.                                           *)
(***************************************************************************)
Dirs == {1, -1}

\* a faulty variant of resetBallOnPaddle: the ball is put down touching the
\* paddle, without the pixel between them
resetBallTouching(b, p, dir) ==
    [b EXCEPT !.x = p.x + p.w \div 2,
              !.y = p.y - b.r,
              !.vx = Px(BALL_SPEED_X) * dir,
              !.vy = -Px(BALL_SPEED_Y)]

resetBallOnPaddle(b, p, dir) ==
    [b EXCEPT !.x = p.x + p.w \div 2,
              !.y = p.y - b.r - Px(1),
              !.vx = Px(BALL_SPEED_X) * dir,
              !.vy = -Px(BALL_SPEED_Y)]

(***************************************************************************)
(* initGame (main.js:79-106): the brick grid, the paddle, the ball.        *)
(***************************************************************************)
rows == 5
cols == 8
brickW == (Px(GAME_W) - Px(20)) \div cols - Px(4)
brickH == Px(20)
startY == Px(80)
startX == Px(10)

\* the brick pushed at (row, col), rows and columns counted from 0
NewBrick(row, col) ==
    [x |-> startX + col * (brickW + Px(4)),
     y |-> startY + row * (brickH + Px(4)),
     w |-> brickW, h |-> brickH, active |-> TRUE]

\* the grid in push order: row 0 left to right, then row 1, ...
NewBricks ==
    [i \in 1..(rows * cols) |-> NewBrick((i - 1) \div cols, (i - 1) % cols)]

\* a faulty variant of initPaddle: the target is left where it was
initPaddleKeepsTarget(p) ==
    [p EXCEPT !.x = Px(GAME_W) \div 2 - p.w \div 2]

\* main.js:100-102
initPaddle(p) ==
    [p EXCEPT !.x = Px(GAME_W) \div 2 - p.w \div 2,
              !.targetX = Px(GAME_W) \div 2 - p.w \div 2]

(***************************************************************************)
(* reflectBallFromRect (main.js:175-230), as a function of the ball and    *)
(* the rectangle: whether they collide, and the ball afterwards.           *)
(***************************************************************************)
closestX(b, rect) == clamp(b.x, rect.x, rect.x + rect.w)

\* a faulty variant of closestY: the rectangle's width for its height
closestYByWidth(b, rect) == clamp(b.y, rect.y, rect.y + rect.w)

closestY(b, rect) == clamp(b.y, rect.y, rect.y + rect.h)

\* squared distance from the ball's centre to the closest point of rect
dist2(b, rect) ==
    LET dx == b.x - closestX(b, rect)
        dy == b.y - closestY(b, rect)
    IN  dx * dx + dy * dy

\* main.js:192-212: the ball's centre is inside rect
reflectInside(b, rect) ==
    LET left == Abs(b.x - rect.x)
        right == Abs(rect.x + rect.w - b.x)
        top == Abs(b.y - rect.y)
        bottom == Abs(rect.y + rect.h - b.y)
        minEdge == Min2(Min2(left, right), Min2(top, bottom))
    IN  IF minEdge = left
        THEN [b EXCEPT !.x = rect.x - b.r - Half, !.vx = -Abs(b.vx)]
        ELSE IF minEdge = right
        THEN [b EXCEPT !.x = rect.x + rect.w + b.r + Half, !.vx = Abs(b.vx)]
        ELSE IF minEdge = top
        THEN [b EXCEPT !.y = rect.y - b.r - Half, !.vy = -Abs(b.vy)]
        ELSE [b EXCEPT !.y = rect.y + rect.h + b.r + Half, !.vy = Abs(b.vy)]

\* a faulty variant of reflectOutside: equal overlaps are resolved along x
reflectOutsideTieX(b, rect) ==
    LET dx == b.x - closestX(b, rect)
        dy == b.y - closestY(b, rect)
        overlapX == b.r - Abs(dx)
        overlapY == b.r - Abs(dy)
    IN  IF overlapX <= overlapY
        THEN [b EXCEPT !.x = IF dx > 0 THEN b.x + (overlapX + Half)
                                       ELSE b.x - (overlapX + Half),
                       !.vx = -b.vx]
        ELSE [b EXCEPT !.y = IF dy > 0 THEN b.y + (overlapY + Half)
                                       ELSE b.y - (overlapY + Half),
                       !.vy = -b.vy]

\* a faulty variant of reflectOutside: the push stops at the overlap, without
\* the half pixel beyond it
reflectOutsideNoSlack(b, rect) ==
    LET dx == b.x - closestX(b, rect)
        dy == b.y - closestY(b, rect)
        overlapX == b.r - Abs(dx)
        overlapY == b.r - Abs(dy)
    IN  IF overlapX < overlapY
        THEN [b EXCEPT !.x = IF dx > 0 THEN b.x + overlapX ELSE b.x - overlapX,
                       !.vx = -b.vx]
        ELSE [b EXCEPT !.y = IF dy > 0 THEN b.y + overlapY ELSE b.y - overlapY,
                       !.vy = -b.vy]

\* main.js:215-228: the ball's centre is outside rect
reflectOutside(b, rect) ==
    LET dx == b.x - closestX(b, rect)
        dy == b.y - closestY(b, rect)
        overlapX == b.r - Abs(dx)
        overlapY == b.r - Abs(dy)
    IN  IF overlapX < overlapY
        THEN [b EXCEPT !.x = IF dx > 0 THEN b.x + (overlapX + Half)
                                       ELSE b.x - (overlapX + Half),
                       !.vx = -b.vx]
        ELSE [b EXCEPT !.y = IF dy > 0 THEN b.y + (overlapY + Half)
                                       ELSE b.y - (overlapY + Half),
                       !.vy = -b.vy]

reflectBallFromRect(b, rect) ==
    LET dx == b.x - closestX(b, rect)
        dy == b.y - closestY(b, rect)
    IN  IF dist2(b, rect) > b.r * b.r
        THEN [hit |-> FALSE, ball |-> b]
        ELSE IF Abs(dx) = 0 /\ Abs(dy) = 0
        THEN [hit |-> TRUE, ball |-> reflectInside(b, rect)]
        ELSE [hit |-> TRUE, ball |-> reflectOutside(b, rect)]

(***************************************************************************)
(* checkCollisions (main.js:233-282), step by step.                        *)
(***************************************************************************)
\* a faulty variant of wallStep: a wall negates the velocity component
\* whatever its sign
wallStepFlips(b) ==
    LET b1 == IF b.x - b.r <= 0
              THEN [b EXCEPT !.x = b.r, !.vx = -b.vx] ELSE b
        b2 == IF b1.x + b1.r >= Px(GAME_W)
              THEN [b1 EXCEPT !.x = Px(GAME_W) - b1.r, !.vx = -b1.vx] ELSE b1
    IN  IF b2.y - b2.r <= 0
        THEN [b2 EXCEPT !.y = b2.r, !.vy = -b2.vy] ELSE b2

\* main.js:234-246: the walls
wallStep(b) ==
    LET b1 == IF b.x - b.r <= 0
              THEN [b EXCEPT !.x = b.r, !.vx = Abs(b.vx)] ELSE b
        b2 == IF b1.x + b1.r >= Px(GAME_W)
              THEN [b1 EXCEPT !.x = Px(GAME_W) - b1.r, !.vx = -Abs(b1.vx)] ELSE b1
    IN  IF b2.y - b2.r <= 0
        THEN [b2 EXCEPT !.y = b2.r, !.vy = Abs(b2.vy)] ELSE b2

\* a faulty variant of paddleVx: hit is not clamped
paddleVxUnclamped(b, p) ==
    RoundDiv((2 * (b.x - p.x) - p.w) * Px(420), 2 * p.w)

\* main.js:254-256: hit = (ball.x - paddle.x) / paddle.w - 0.5 is
\* (2 (ball.x - paddle.x) - paddle.w) / (2 paddle.w); the new vx = hitClamped * 420
paddleVx(b, p) ==
    LET hitClamped == clamp(2 * (b.x - p.x) - p.w, -p.w, p.w)
    IN  RoundDiv(hitClamped * Px(420), 2 * p.w)

\* a faulty variant of paddleStep: vy is left as the reflection set it
paddleStepKeepsVy(b, p) ==
    LET res == reflectBallFromRect(b, p)
    IN  IF res.hit
        THEN [res.ball EXCEPT !.vx = paddleVx(res.ball, p)]
        ELSE b

\* main.js:248-257: the paddle
paddleStep(b, p) ==
    LET res == reflectBallFromRect(b, p)
    IN  IF res.hit
        THEN [res.ball EXCEPT !.vy = -Abs(res.ball.vy), !.vx = paddleVx(res.ball, p)]
        ELSE b

\* a faulty variant of brickLoop: the loop does not break at the first hit
RECURSIVE brickLoopNoBreak(_, _, _)
brickLoopNoBreak(b, brs, i) ==
    IF i > Len(brs)
    THEN [ball |-> b, bricks |-> brs, points |-> 0]
    ELSE IF brs[i].active /\ reflectBallFromRect(b, brs[i]).hit
    THEN [brickLoopNoBreak(reflectBallFromRect(b, brs[i]).ball,
                           [brs EXCEPT ![i].active = FALSE], i + 1)
             EXCEPT !.points = @ + 10]
    ELSE brickLoopNoBreak(b, brs, i + 1)

\* a faulty variant of brickLoop: the loop runs from the last brick to the first
RECURSIVE brickLoopBackwards(_, _, _)
brickLoopBackwards(b, brs, i) ==
    IF i > Len(brs)
    THEN [ball |-> b, bricks |-> brs, points |-> 0]
    ELSE IF brs[Len(brs) + 1 - i].active /\ reflectBallFromRect(b, brs[Len(brs) + 1 - i]).hit
    THEN [ball |-> reflectBallFromRect(b, brs[Len(brs) + 1 - i]).ball,
          bricks |-> [brs EXCEPT ![Len(brs) + 1 - i].active = FALSE],
          points |-> 10]
    ELSE brickLoopBackwards(b, brs, i + 1)

\* main.js:259-266: the loop over the bricks from brick i on: the ball and
\* the bricks after it, and the points it adds to the score
RECURSIVE brickLoop(_, _, _)
brickLoop(b, brs, i) ==
    IF i > Len(brs)
    THEN [ball |-> b, bricks |-> brs, points |-> 0]
    ELSE IF brs[i].active /\ reflectBallFromRect(b, brs[i]).hit
    THEN [ball |-> reflectBallFromRect(b, brs[i]).ball,       \* break
          bricks |-> [brs EXCEPT ![i].active = FALSE],
          points |-> 10]
    ELSE brickLoop(b, brs, i + 1)

\* a faulty variant of outOfBounds: the ball's bottom edge is tested
outOfBoundsBottomEdge(b) == b.y + b.r > Px(GAME_H)

\* main.js:269: the ball's top edge is below the playfield
outOfBounds(b) == b.y - b.r > Px(GAME_H)

\* a faulty variant of noLivesLeft: the game goes on with no life left
noLivesLeftStrict(lv) == lv < 0

\* main.js:271: lives <= 0
noLivesLeft(lv) == lv <= 0

\* main.js:279: bricks.every(b => !b.active)
allCleared(brs) == \A i \in 1..Len(brs) : ~brs[i].active

\* One value after another, as the code computes them: each \E binds the
\* value of the step before.  b is the ball after the move, p the paddle
\* after the smoothing, dir the outcome of Math.random in a serve.
checkCollisions(b, p, dir) ==
    \E b1 \in {wallStep(b)} :
    \E b2 \in {paddleStep(b1, p)} :
    \E bl \in {brickLoop(b2, bricks, 1)} :
    \E lv \in {IF outOfBounds(bl.ball) THEN lives - 1 ELSE lives} :
        /\ bricks' = bl.bricks
        /\ score' = score + bl.points
        /\ lives' = lv
        /\ ball' = IF outOfBounds(bl.ball) /\ ~noLivesLeft(lv)
                   THEN resetBallOnPaddle(bl.ball, p, dir) ELSE bl.ball
        /\ state' = IF allCleared(bl.bricks) THEN "win"
                    ELSE IF outOfBounds(bl.ball) /\ noLivesLeft(lv) THEN "lose"
                    ELSE state

(***************************************************************************)
(* update (main.js:285-297) while playing; dt in time units.               *)
(***************************************************************************)
\* main.js:289: paddle.x += (targetX - x) * Math.min(1, dt * PADDLE_SMOOTHING)
smoothPaddle(p, dt) ==
    [p EXCEPT !.x = p.x + RoundDiv((p.targetX - p.x) * Min2(TPS, dt * PADDLE_SMOOTHING), TPS)]

\* main.js:292-293
moveBall(b, dt) ==
    [b EXCEPT !.x = b.x + RoundDiv(b.vx * dt, TPS),
              !.y = b.y + RoundDiv(b.vy * dt, TPS)]

(***************************************************************************)
(* The canvas on the page: resizeCanvas (main.js:36-53) gives it the CSS   *)
(* width min(innerWidth, GAME_W); its left edge is where the page puts it. *)
(* The viewport here is half as wide as the playfield.                     *)
(***************************************************************************)
innerWidth == GAME_W \div 2
canvasWidth == Px(Min2(innerWidth, GAME_W))
canvasLeft == Px(10)

\* screenToGame (main.js:110-118), the x coordinate; clientX in sub-pixels
screenToGame(clientX) ==
    RoundDiv((clientX - canvasLeft) * Px(GAME_W), canvasWidth)

(***************************************************************************)
(* startNewGame (main.js:61-66) with initGame (main.js:79-106).            *)
(***************************************************************************)
\* a faulty variant of startNewGame: the score is left as it was
startNewGameKeepsScore(dir) ==
    /\ score' = score
    /\ lives' = 3
    /\ state' = "playing"
    /\ bricks' = NewBricks
    /\ paddle' = initPaddle(paddle)
    /\ ball' = resetBallOnPaddle(ball, initPaddle(paddle), dir)

\* a faulty variant of startNewGame: the lives are left as they were
startNewGameKeepsLives(dir) ==
    /\ score' = 0
    /\ lives' = lives
    /\ state' = "playing"
    /\ bricks' = NewBricks
    /\ paddle' = initPaddle(paddle)
    /\ ball' = resetBallOnPaddle(ball, initPaddle(paddle), dir)

startNewGame(dir) ==
    /\ score' = 0
    /\ lives' = 3
    /\ state' = "playing"
    /\ bricks' = NewBricks
    /\ paddle' = initPaddle(paddle)
    /\ ball' = resetBallOnPaddle(ball, initPaddle(paddle), dir)

\* the program's state, as the history variable keeps it
Snapshot ==
    [state |-> state, score |-> score, lives |-> lives, paddle |-> paddle,
     ball |-> ball, bricks |-> bricks, input |-> input]

\* no drag has begun in the current game, or the one that had is over
noDrag == [begun |-> FALSE, offset |-> 0]

\* history of the drag, after handler op has run on arg: whether a
\* pointerdown handled in mode playing has begun a drag since the last start
\* of a game and the last pointerup or pointercancel, and the offset between
\* the pointer and the paddle's centre at that pointerdown
DragAfter(op, arg) ==
    IF op = "pointerdown"
    THEN IF state = "playing"
         THEN [begun |-> TRUE,
               offset |-> screenToGame(arg) - (paddle.x + paddle.w \div 2)]
         ELSE IF state \in {"menu", "win", "lose"} THEN noDrag ELSE last.drag
    ELSE IF op = "keydown"
    THEN IF state \in {"menu", "win", "lose"} /\ arg \in {" ", "Enter"}
         THEN noDrag ELSE last.drag
    ELSE IF op \in {"pointerup", "pointercancel"}
    THEN noDrag
    ELSE last.drag

Ran(op, arg) ==
    last' = [op |-> op, arg |-> arg, pre |-> Snapshot, drag |-> DragAfter(op, arg)]

(***************************************************************************)
(* The handlers (main.js:121-172).                                         *)
(***************************************************************************)
PointerDown(clientX) ==
    /\ IF state \in {"menu", "win", "lose"}
       THEN (\E dir \in Dirs : startNewGame(dir)) /\ UNCHANGED input
       ELSE IF state = "playing"
       THEN /\ input' = [pointerActive |-> TRUE,
                         pointerX |-> screenToGame(clientX),
                         grabOffset |-> screenToGame(clientX) - (paddle.x + paddle.w \div 2)]
            /\ UNCHANGED <<state, score, lives, paddle, ball, bricks>>
       ELSE UNCHANGED prog
    /\ Ran("pointerdown", clientX)

\* a faulty variant of PointerMove: the paddle snaps to the pointer
PointerMoveSnaps(clientX) ==
    /\ IF state = "playing" /\ input.pointerActive
       THEN /\ input' = [input EXCEPT !.pointerX = screenToGame(clientX)]
            /\ paddle' = [paddle EXCEPT
                            !.targetX = clamp(screenToGame(clientX) - input.grabOffset - paddle.w \div 2,
                                              0, Px(GAME_W) - paddle.w),
                            !.x = clamp(screenToGame(clientX) - input.grabOffset - paddle.w \div 2,
                                        0, Px(GAME_W) - paddle.w)]
            /\ UNCHANGED <<state, score, lives, ball, bricks>>
       ELSE UNCHANGED prog
    /\ Ran("pointermove", clientX)

PointerMove(clientX) ==
    /\ IF state = "playing" /\ input.pointerActive
       THEN /\ input' = [input EXCEPT !.pointerX = screenToGame(clientX)]
            /\ paddle' = [paddle EXCEPT !.targetX =
                            clamp(screenToGame(clientX) - input.grabOffset - paddle.w \div 2,
                                  0, Px(GAME_W) - paddle.w)]
            /\ UNCHANGED <<state, score, lives, ball, bricks>>
       ELSE UNCHANGED prog
    /\ Ran("pointermove", clientX)

PointerUp ==
    /\ input' = [input EXCEPT !.pointerActive = FALSE]
    /\ UNCHANGED <<state, score, lives, paddle, ball, bricks>>
    /\ Ran("pointerup", 0)

PointerCancel ==
    /\ input' = [input EXCEPT !.pointerActive = FALSE]
    /\ UNCHANGED <<state, score, lives, paddle, ball, bricks>>
    /\ Ran("pointercancel", 0)

\* a faulty variant of startKeys: any key starts a game
startKeysAny == {" ", "Enter", "a"}

\* main.js:165: the keys that start a game
startKeys == {" ", "Enter"}

KeyDown(key) ==
    /\ IF state \in {"menu", "win", "lose"}
       THEN IF key \in startKeys
            THEN (\E dir \in Dirs : startNewGame(dir)) /\ UNCHANGED input
            ELSE UNCHANGED prog
       ELSE IF state = "playing"
       THEN /\ paddle' =
                 IF key = "ArrowLeft"
                 THEN [paddle EXCEPT !.targetX =
                         clamp(paddle.targetX - Px(10), 0, Px(GAME_W) - paddle.w)]
                 ELSE IF key = "ArrowRight"
                 THEN [paddle EXCEPT !.targetX =
                         clamp(paddle.targetX + Px(10), 0, Px(GAME_W) - paddle.w)]
                 ELSE paddle
            /\ UNCHANGED <<state, score, lives, ball, bricks, input>>
       ELSE UNCHANGED prog
    /\ Ran("keydown", key)

(***************************************************************************)
(* update (main.js:285-297) and gameLoop (main.js:364-374).  elapsed is    *)
(* (ts - lastTime) / 1000 in time units; draw() writes no game state.      *)
(***************************************************************************)
\* a faulty variant of update: no early return when the mode is not playing
updateAlways(dt) ==
    \E dir \in Dirs :
    \E p1 \in {smoothPaddle(paddle, dt)} :
    \E b1 \in {moveBall(ball, dt)} :
        /\ paddle' = p1
        /\ checkCollisions(b1, p1, dir)
        /\ UNCHANGED input

update(dt) ==
    IF state # "playing"
    THEN UNCHANGED prog
    ELSE \E dir \in Dirs :
         \E p1 \in {smoothPaddle(paddle, dt)} :
         \E b1 \in {moveBall(ball, dt)} :
            /\ paddle' = p1
            /\ checkCollisions(b1, p1, dir)
            /\ UNCHANGED input

\* main.js:369: if (dt > MAX_DT) dt = MAX_DT
cappedDt(elapsed) == IF elapsed > MAX_DT THEN MAX_DT ELSE elapsed

GameLoop(elapsed) ==
    /\ update(cappedDt(elapsed))
    /\ Ran("frame", elapsed)

(***************************************************************************)
(* The environment.  A player plays the game: a tap starts it, a second    *)
(* touch grabs the paddle at its centre, and from then on, once between    *)
(* every two frames, the finger moves to AimOffset beside the ball; the    *)
(* player's frames last MAX_DT.  Where the ball is served is the program's *)
(* own choice (Dirs), so the player's games differ: some are won, some are *)
(* lost.  At any point of the player's games up to MaxFree other inputs    *)
(* and frames arrive instead: any pointer event at an edge of the canvas,  *)
(* any key of Keys, a frame after any time of FrameDts.                    *)
(***************************************************************************)
MaxFree == 1
DtOver == 2

AimOffset == -(Px(80) \div 3)

\* the client x over the game x
toClient(gameX) == canvasLeft + RoundDiv(gameX * canvasWidth, Px(GAME_W))

EdgeXs == {canvasLeft, canvasLeft + canvasWidth}
Keys == {" ", "Enter", "ArrowLeft", "ArrowRight", "a"}
FrameDts == {0, MAX_DT \div 2, MAX_DT, MAX_DT + DtOver}

\* the player's next move: <<handler, argument>>
Player ==
    IF last.op \notin {"init", "frame"}
    THEN <<"frame", MAX_DT>>
    ELSE IF state = "playing" /\ input.pointerActive
    THEN <<"pointermove", toClient(ball.x + AimOffset)>>
    ELSE IF state = "playing"
    THEN <<"pointerdown", toClient(paddle.x + paddle.w \div 2)>>
    ELSE <<"pointerdown", toClient(ball.x + AimOffset)>>

ClientXs == EdgeXs \cup (IF Player[1] = "frame" THEN {} ELSE {Player[2]})

\* the player's move while only the player has acted, else one of the MaxFree others
Arrives(op, arg) ==
    IF free = 0 /\ op = Player[1] /\ arg = Player[2]
    THEN free' = 0
    ELSE free < MaxFree /\ free' = free + 1

Init ==
    /\ state = "menu"
    /\ score = 0
    /\ lives = 3
    /\ paddle = paddle0
    /\ ball = ball0
    /\ bricks = <<>>
    /\ input = input0
    /\ last = [op |-> "init", arg |-> 0,
               pre |-> [state |-> "menu", score |-> 0, lives |-> 3, paddle |-> paddle0,
                        ball |-> ball0, bricks |-> <<>>, input |-> input0],
               drag |-> noDrag]
    /\ free = 0

Next ==
    \/ \E x \in ClientXs : Arrives("pointerdown", x) /\ PointerDown(x)
    \/ \E x \in ClientXs : Arrives("pointermove", x) /\ PointerMove(x)
    \/ Arrives("pointerup", 0) /\ PointerUp
    \/ Arrives("pointercancel", 0) /\ PointerCancel
    \/ \E key \in Keys : Arrives("keydown", key) /\ KeyDown(key)
    \/ \E elapsed \in FrameDts : Arrives("frame", elapsed) /\ GameLoop(elapsed)

Spec == Init /\ [][Next]_vars

(***************************************************************************)
(* reflectBallFromRect on its own (main.js:175-230).  The rectangle under  *)
(* test is held in paddle: the paddle, the first brick, or a small square. *)
(* The ball has one of the radii TestRadii, its centre on the half-pixel   *)
(* grid that covers the rectangle and reaches TestMargin pixels further    *)
(* than the radius on every side, and one of the velocities TestVels.      *)
(* Reflect calls the function on the ball and the rectangle; last.arg is   *)
(* the value it returned.                                                  *)
(***************************************************************************)
TestMargin == 1
TestSquare == 2
TestSmallRadius == 2

rectOf(r) == [paddle0 EXCEPT !.x = r.x, !.y = r.y, !.w = r.w, !.h = r.h]

TestRects ==
    { rectOf(paddle0),
      rectOf(NewBrick(0, 0)),
      rectOf([x |-> Px(100), y |-> Px(200), w |-> Px(TestSquare), h |-> Px(TestSquare)]) }

TestRadii == {ball0.r, Px(TestSmallRadius)}

TestVels ==
    { <<vx, vy>> : vx \in {Px(BALL_SPEED_X), -Px(BALL_SPEED_X)},
                   vy \in {Px(BALL_SPEED_Y), -Px(BALL_SPEED_Y)} }

\* the grid points from lo - reach to hi + reach
GridAround(lo, hi, reach) ==
    { lo - reach + k * Half : k \in 0..((hi - lo + 2 * reach) \div Half) }

TestBalls(rect) ==
    UNION { { [x |-> x, y |-> y, vx |-> v[1], vy |-> v[2], r |-> r] :
                  x \in GridAround(rect.x, rect.x + rect.w, r + Px(TestMargin)),
                  y \in GridAround(rect.y, rect.y + rect.h, r + Px(TestMargin)),
                  v \in TestVels }
            : r \in TestRadii }

ReflectInit ==
    /\ state = "playing"
    /\ score = 0
    /\ lives = 3
    /\ paddle \in TestRects
    /\ ball \in TestBalls(paddle)
    /\ bricks = <<>>
    /\ input = input0
    /\ last = [op |-> "init", arg |-> FALSE,
               pre |-> [state |-> "playing", score |-> 0, lives |-> 3, paddle |-> paddle,
                        ball |-> ball, bricks |-> <<>>, input |-> input0],
               drag |-> noDrag]
    /\ free = 0

Reflect ==
    \E res \in {reflectBallFromRect(ball, paddle)} :
        /\ ball' = res.ball
        /\ Ran("reflect", res.hit)
        /\ UNCHANGED <<state, score, lives, paddle, bricks, input, free>>

ReflectNext == Reflect

SpecReflect == ReflectInit /\ [][ReflectNext]_vars

(***************************************************************************)
(* The wall step of checkCollisions on its own (main.js:234-246).  The     *)
(* ball has one of the radii TestRadii and one of the velocities TestVels; *)
(* its centre is on the half-pixel grid within WallReach pixels of where   *)
(* it touches the left wall, the right wall, the top, or has its top edge  *)
(* on the bottom edge of the playfield, or is in the middle.  Walls        *)
(* applies the wall step to the ball.                                      *)
(***************************************************************************)
WallReach == 8

WallXs(r) ==
    GridAround(r, r, Px(WallReach))
        \cup {Px(GAME_W) \div 2}
        \cup GridAround(Px(GAME_W) - r, Px(GAME_W) - r, Px(WallReach))

WallYs(r) ==
    GridAround(r, r, Px(WallReach))
        \cup {Px(GAME_H) \div 2}
        \cup GridAround(Px(GAME_H) + r, Px(GAME_H) + r, Px(WallReach))

WallBalls ==
    UNION { { [x |-> x, y |-> y, vx |-> v[1], vy |-> v[2], r |-> r] :
                  x \in WallXs(r), y \in WallYs(r), v \in TestVels }
            : r \in TestRadii }

WallsInit ==
    /\ state = "playing"
    /\ score = 0
    /\ lives = 3
    /\ paddle = paddle0
    /\ ball \in WallBalls
    /\ bricks = <<>>
    /\ input = input0
    /\ last = [op |-> "init", arg |-> FALSE,
               pre |-> [state |-> "playing", score |-> 0, lives |-> 3, paddle |-> paddle0,
                        ball |-> ball, bricks |-> <<>>, input |-> input0],
               drag |-> noDrag]
    /\ free = 0

Walls ==
    /\ ball' = wallStep(ball)
    /\ Ran("walls", FALSE)
    /\ UNCHANGED <<state, score, lives, paddle, bricks, input, free>>

WallsNext == Walls

SpecWalls == WallsInit /\ [][WallsNext]_vars

(***************************************************************************)
(* Properties.  last.pre is the program's state before the handler that    *)
(* ran last, so a property of one step of a handler is a property of       *)
(* every reachable state.                                                  *)
(***************************************************************************)
pre == last.pre

InputOps == {"pointerdown", "pointermove", "pointerup", "pointercancel", "keydown"}

\* the handler that ran last was a start trigger: a pointerdown, or a keydown
\* of Space or Enter, in mode menu, win or lose
StartTrigger ==
    /\ pre.state \in {"menu", "win", "lose"}
    /\ \/ last.op = "pointerdown"
       \/ last.op = "keydown" /\ last.arg \in {" ", "Enter"}

\* the handler that ran last was a frame whose update ran (the mode was playing)
Tick == last.op = "frame" /\ pre.state = "playing"

ActiveIn(brs) == {i \in 1..Len(brs) : brs[i].active}

\* C1: the mode is always menu, playing, win or lose; it changes only from
\* menu, win or lose to playing on a start trigger, and from playing to win
\* or lose in a frame; no other handler changes a mode of win or lose.
C1_ModeTransitions ==
    /\ state \in {"menu", "playing", "win", "lose"}
    /\ state # pre.state =>
          \/ state = "playing" /\ StartTrigger
          \/ state \in {"win", "lose"} /\ Tick
    /\ (pre.state \in {"win", "lose"} /\ ~StartTrigger) => state = pre.state

\* a frame arrived in mode win and left it
C1_Witness ==
    last.op = "frame" /\ pre.state = "win" /\ state = "win"

\* C2: a start trigger in mode menu, win or lose gives, in one step, mode
\* playing, score 0, 3 lives, 5 x 8 active bricks, the paddle centred with its
\* target on it, and the ball resting on the paddle, served upwards at 260
\* and sideways at 180, whatever the state before.
C2_StartResets ==
    StartTrigger =>
        /\ state = "playing"
        /\ score = 0
        /\ lives = 3
        /\ Len(bricks) = 40
        /\ \A i \in 1..Len(bricks) : bricks[i].active
        /\ Cardinality({bricks[i].y : i \in 1..Len(bricks)}) = 5
        /\ Cardinality({bricks[i].x : i \in 1..Len(bricks)}) = 8
        /\ Cardinality({<<bricks[i].x, bricks[i].y>> : i \in 1..Len(bricks)}) = 40
        /\ 2 * paddle.x = Px(GAME_W) - paddle.w
        /\ paddle.targetX = paddle.x
        /\ 2 * ball.x = 2 * paddle.x + paddle.w
        /\ ball.y = paddle.y - ball.r - Px(1)
        /\ ball.vy = -Px(260)
        /\ ball.vx \in {-Px(180), Px(180)}

\* a lost game with points scored, the paddle and its target away from the
\* centre, restarted
C2_Witness ==
    /\ StartTrigger
    /\ pre.state = "lose"
    /\ pre.score > 0
    /\ pre.lives = 0
    /\ pre.paddle.x # paddle.x
    /\ pre.paddle.targetX # paddle.x
    /\ ActiveIn(pre.bricks) # ActiveIn(bricks)

\* C3: once a game has been started the mode is win exactly when no brick is
\* active, and lose exactly when no life is left and a brick is active; so
\* the frame that clears the last brick ends in win and the frame that takes
\* the last life with a brick left ends in lose.
C3_WinLoseIff ==
    state # "menu" =>
        /\ state = "win" <=> ActiveIn(bricks) = {}
        /\ state = "lose" <=> (lives = 0 /\ ActiveIn(bricks) # {})
        /\ (Tick /\ ActiveIn(pre.bricks) # {} /\ ActiveIn(bricks) = {}) => state = "win"
        /\ (Tick /\ pre.lives > 0 /\ lives = 0 /\ ActiveIn(bricks) # {}) => state = "lose"

\* a frame cleared the last brick
C3_Witness ==
    /\ Tick
    /\ Cardinality(ActiveIn(pre.bricks)) = 1
    /\ ActiveIn(bricks) = {}
    /\ state = "win"

\* the ball of a frame, recomputed from the state before it: after the move
\* and the wall and paddle steps (before the bricks), and after the bricks
\* (before the out-of-bounds test)
TickDt == cappedDt(last.arg)
TickPaddle == smoothPaddle(pre.paddle, TickDt)
BallAtBricks == paddleStep(wallStep(moveBall(pre.ball, TickDt)), TickPaddle)
BallAfterBricks == brickLoop(BallAtBricks, pre.bricks, 1).ball

\* the active bricks the ball overlaps when the brick loop starts
Overlapped ==
    {i \in ActiveIn(pre.bricks) :
        dist2(BallAtBricks, pre.bricks[i]) <= BallAtBricks.r * BallAtBricks.r}

\* C4: a frame never increases lives; it takes exactly one life when, after
\* the move and the collisions, the ball's top edge is below the playfield
\* (ball.y - ball.r > GAME_H), and none otherwise.
C4_LivesStep ==
    /\ last.op = "frame" => lives <= pre.lives
    /\ Tick =>
          lives = IF BallAfterBricks.y - BallAfterBricks.r > Px(GAME_H)
                  THEN pre.lives - 1 ELSE pre.lives

\* a frame took a life and the game went on
C4_Witness ==
    /\ Tick
    /\ lives = pre.lives - 1
    /\ state = "playing"
    /\ BallAfterBricks.y - BallAfterBricks.r > Px(GAME_H)

\* C5: a frame leaves the score or adds exactly 10 to it, also when the ball
\* overlaps several active bricks.
C5_ScoreStep ==
    last.op = "frame" => score - pre.score \in {0, 10}

\* a frame in which the ball overlapped two active bricks or more and 10 was scored
C5_Witness ==
    /\ Tick
    /\ Cardinality(Overlapped) >= 2
    /\ score = pre.score + 10

\* row-major order of the bricks by their place in the grid: upper rows
\* first, in a row from left to right
RowMajorBefore(r1, r2) == r1.y < r2.y \/ (r1.y = r2.y /\ r1.x < r2.x)

\* C6: a frame deactivates at most one brick, the first in row-major order
\* of the active bricks the ball overlaps; the others stay as they were.
\* Nothing but a start trigger changes a brick otherwise, nor reactivates one.
C6_BrickStep ==
    ~StartTrigger =>
        /\ Len(bricks) = Len(pre.bricks)
        /\ \A i \in 1..Len(bricks) :
              /\ [bricks[i] EXCEPT !.active = TRUE] = [pre.bricks[i] EXCEPT !.active = TRUE]
              /\ bricks[i].active => pre.bricks[i].active
        /\ ~Tick => bricks = pre.bricks
        /\ Tick =>
              /\ Cardinality(ActiveIn(pre.bricks) \ ActiveIn(bricks)) <= 1
              /\ Overlapped = {} => bricks = pre.bricks
              /\ Overlapped # {} =>
                    \E d \in Overlapped :
                        /\ ActiveIn(pre.bricks) \ ActiveIn(bricks) = {d}
                        /\ \A j \in Overlapped \ {d} :
                              RowMajorBefore(pre.bricks[d], pre.bricks[j])

\* a frame deactivated one of several overlapped bricks; a later one stayed active
C6_Witness ==
    /\ Tick
    /\ \E d \in Overlapped, j \in Overlapped :
          /\ ~bricks[d].active
          /\ bricks[j].active
          /\ RowMajorBefore(pre.bricks[d], pre.bricks[j])

\* C7: a frame in mode menu, win or lose changes nothing.
C7_IdleFrame ==
    (last.op = "frame" /\ pre.state # "playing") =>
        /\ state = pre.state
        /\ score = pre.score
        /\ lives = pre.lives
        /\ paddle = pre.paddle
        /\ ball = pre.ball
        /\ bricks = pre.bricks

\* a frame of MAX_DT arrived after a lost game
C7_Witness ==
    /\ last.op = "frame"
    /\ last.arg = MAX_DT
    /\ pre.state = "lose"
    /\ ball = pre.ball

\* C8: while the mode is playing a pointer or key event leaves the mode, the
\* ball, the bricks, the score, the lives and the paddle but for its targetX.
C8_InputWrites ==
    (last.op \in InputOps /\ pre.state = "playing") =>
        /\ state = "playing"
        /\ score = pre.score
        /\ lives = pre.lives
        /\ ball = pre.ball
        /\ bricks = pre.bricks
        /\ [paddle EXCEPT !.targetX = pre.paddle.targetX] = pre.paddle

\* a pointermove during a drag moved the paddle's target
C8_Witness ==
    /\ last.op = "pointermove"
    /\ pre.state = "playing"
    /\ pre.input.pointerActive
    /\ paddle.targetX # pre.paddle.targetX
    /\ paddle.x = pre.paddle.x

\* C9: the paddle and its target are always inside the playfield, and the
\* paddle keeps its size.
C9_PaddleInside ==
    /\ 0 <= paddle.x /\ paddle.x <= Px(GAME_W) - paddle.w
    /\ 0 <= paddle.targetX /\ paddle.targetX <= Px(GAME_W) - paddle.w
    /\ paddle.w = Px(60)
    /\ paddle.h = Px(10)

\* a pointermove aimed left of the playfield, the target was held at 0, and
\* a frame brought the paddle to the left wall
C9_Witness ==
    /\ Tick
    /\ pre.paddle.targetX = 0
    /\ pre.paddle.x > 0
    /\ paddle.x = 0
    /\ pre.input.pointerX - pre.input.grabOffset - pre.paddle.w \div 2 < 0

\* the square of the distance from v to the nearest number of lo..hi
GapSq(v, lo, hi) ==
    IF v < lo THEN (lo - v) * (lo - v)
    ELSE IF v > hi THEN (v - hi) * (v - hi)
    ELSE 0

\* the square of the distance from the centre of b to the nearest point of rect
NearestSq(b, rect) ==
    GapSq(b.x, rect.x, rect.x + rect.w) + GapSq(b.y, rect.y, rect.y + rect.h)

\* C10: when the nearest point of the rectangle is further from the ball's
\* centre than the radius, reflectBallFromRect returns false and leaves the
\* ball's x, y, vx and vy as they were.
C10_MissUnchanged ==
    (last.op = "reflect" /\ NearestSq(pre.ball, pre.paddle) > pre.ball.r * pre.ball.r)
        => /\ last.arg = FALSE
           /\ ball.x = pre.ball.x /\ ball.y = pre.ball.y
           /\ ball.vx = pre.ball.vx /\ ball.vy = pre.ball.vy

\* a ball off a corner of the rectangle, nearer than its radius to both of
\* the corner's edges taken alone and further than its radius from the corner,
\* was passed to reflectBallFromRect
C10_Witness ==
    /\ last.op = "reflect"
    /\ last.arg = FALSE
    /\ NearestSq(pre.ball, pre.paddle) > pre.ball.r * pre.ball.r
    /\ 0 < GapSq(pre.ball.x, pre.paddle.x, pre.paddle.x + pre.paddle.w)
    /\ GapSq(pre.ball.x, pre.paddle.x, pre.paddle.x + pre.paddle.w) < pre.ball.r * pre.ball.r
    /\ 0 < GapSq(pre.ball.y, pre.paddle.y, pre.paddle.y + pre.paddle.h)
    /\ GapSq(pre.ball.y, pre.paddle.y, pre.paddle.y + pre.paddle.h) < pre.ball.r * pre.ball.r

\* C11: when the nearest point of the rectangle is no further from the ball's
\* centre than the radius (the centre inside the rectangle included),
\* reflectBallFromRect returns true and the corrected ball no longer overlaps
\* the rectangle; a second call on the corrected ball returns false and
\* leaves it as it is.
C11_HitSeparates ==
    (last.op = "reflect" /\ NearestSq(pre.ball, pre.paddle) <= pre.ball.r * pre.ball.r)
        => /\ last.arg = TRUE
           /\ NearestSq(ball, paddle) > ball.r * ball.r
           /\ reflectBallFromRect(ball, paddle) = [hit |-> FALSE, ball |-> ball]

\* a ball whose centre was strictly inside the rectangle was passed to
\* reflectBallFromRect and moved
C11_Witness ==
    /\ last.op = "reflect"
    /\ last.arg = TRUE
    /\ pre.paddle.x < pre.ball.x /\ pre.ball.x < pre.paddle.x + pre.paddle.w
    /\ pre.paddle.y < pre.ball.y /\ pre.ball.y < pre.paddle.y + pre.paddle.h
    /\ ball # pre.ball

\* C12: a frame that finds the ball's top edge below the playfield takes the
\* last life by ending in lose with lives 0 and the ball where the move and
\* the collisions left it; with lives to spare it stays in playing and puts
\* the ball on the paddle, one pixel above it and not overlapping it, with
\* vy = -260 and vx = 180 or -180.
C12_BottomExit ==
    (Tick /\ outOfBounds(BallAfterBricks)) =>
        IF pre.lives = 1
        THEN /\ lives = 0
             /\ state = "lose"
             /\ ball = BallAfterBricks
        ELSE /\ pre.lives > 1
             /\ lives = pre.lives - 1
             /\ state = "playing"
             /\ 2 * ball.x = 2 * paddle.x + paddle.w
             /\ ball.y = paddle.y - ball.r - Px(1)
             /\ NearestSq(ball, paddle) > ball.r * ball.r
             /\ ball.vy = -Px(260)
             /\ ball.vx \in {Px(180), -Px(180)}
             /\ ball.r = pre.ball.r

\* a frame took a life that was not the last and served the ball again, from
\* a paddle that was not where a new game puts it
C12_Witness ==
    /\ Tick
    /\ outOfBounds(BallAfterBricks)
    /\ pre.lives > 1
    /\ state = "playing"
    /\ ball # BallAfterBricks
    /\ paddle.x # Px(GAME_W) \div 2 - paddle.w \div 2

\* the ball of a frame when the paddle step starts: after the move and the walls
BallAtPaddle == wallStep(moveBall(pre.ball, TickDt))

\* the paddle collision of the frame reported a hit
PaddleHit == Tick /\ reflectBallFromRect(BallAtPaddle, TickPaddle).hit

\* C13: when the paddle collision of a frame reports a hit, the ball right
\* after the paddle step moves upward (vy < 0) and has
\* vx = 420 * clamp((ball.x - paddle.x) / paddle.w - 0.5, -0.5, 0.5): between
\* -210 and 210, and 0 at the paddle's centre; this whichever way the
\* reflection pushed the ball.
C13_PaddleBounce ==
    PaddleHit =>
        /\ BallAtBricks.vy < 0
        /\ -Px(210) <= BallAtBricks.vx /\ BallAtBricks.vx <= Px(210)
        /\ LET off == BallAtBricks.x - TickPaddle.x
           IN  /\ off <= 0 => BallAtBricks.vx = -Px(210)
               /\ off >= TickPaddle.w => BallAtBricks.vx = Px(210)
               /\ (0 <= off /\ off <= TickPaddle.w) =>
                      BallAtBricks.vx * TickPaddle.w = Px(420) * off - Px(210) * TickPaddle.w
               /\ 2 * off = TickPaddle.w => BallAtBricks.vx = 0

\* the paddle was hit from the side: the reflection pushed the ball along x
\* and left it moving down, and the paddle step turned it upward
C13_Witness ==
    /\ PaddleHit
    /\ reflectBallFromRect(BallAtPaddle, TickPaddle).ball.x # BallAtPaddle.x
    /\ reflectBallFromRect(BallAtPaddle, TickPaddle).ball.vy > 0
    /\ ball = BallAtBricks
    /\ ball.vy < 0

\* C14: the wall step puts a ball that touches or crosses the left wall at
\* x = r with vx = |vx|, one at the right wall at x = GAME_W - r with
\* vx = -|vx|, one at the top at y = r with vy = |vy|; it keeps the size of
\* both velocity components, leaves a ball strictly inside the three walls
\* as it is, and never changes y or vy of a ball below the top, however far
\* below the bottom edge it is.
C14_WallStep ==
    last.op = "walls" =>
        LET b == pre.ball
            atLeft == b.x - b.r <= 0
            atRight == b.x + b.r >= Px(GAME_W)
            atTop == b.y - b.r <= 0
        IN  /\ atLeft => ball.x = b.r /\ ball.vx = Abs(b.vx)
            /\ atRight => ball.x = Px(GAME_W) - b.r /\ ball.vx = -Abs(b.vx)
            /\ atTop => ball.y = b.r /\ ball.vy = Abs(b.vy)
            /\ (~atLeft /\ ~atRight) => ball.x = b.x /\ ball.vx = b.vx
            /\ ~atTop => ball.y = b.y /\ ball.vy = b.vy
            /\ Abs(ball.vx) = Abs(b.vx) /\ Abs(ball.vy) = Abs(b.vy)
            /\ ball.r = b.r

\* a ball already moving right was across the left wall and at the top at
\* once: it was put back at both and only vy was turned
C14_Witness ==
    /\ last.op = "walls"
    /\ pre.ball.x < 0
    /\ pre.ball.y - pre.ball.r = 0
    /\ pre.ball.vx > 0
    /\ pre.ball.vy < 0
    /\ ball.x = ball.r /\ ball.y = ball.r
    /\ ball.vx = pre.ball.vx /\ ball.vy = -pre.ball.vy

\* C15: once a game has been started (mode playing, win or lose) the ball has
\* |vy| = 260 and |vx| <= 210, and its radius is the one it was created with;
\* a frame without a paddle hit and without a serve keeps |vx| and |vy|, wall
\* and brick bounces included, and no input event but a start trigger
\* changes the velocity.
C15_SpeedKept ==
    /\ ball.r = Px(6)
    /\ state \in {"playing", "win", "lose"} =>
          /\ Abs(ball.vy) = Px(260)
          /\ Abs(ball.vx) <= Px(210)
    /\ (Tick /\ ~PaddleHit /\ ~outOfBounds(BallAfterBricks)) =>
          /\ Abs(ball.vx) = Abs(pre.ball.vx)
          /\ Abs(ball.vy) = Abs(pre.ball.vy)
    /\ (last.op \in InputOps /\ ~StartTrigger) =>
          /\ ball.vx = pre.ball.vx
          /\ ball.vy = pre.ball.vy

\* after a paddle bounce had given the ball a vx other than the serve's, a
\* frame bounced it off a brick: one component was negated and none resized
C15_Witness ==
    /\ Tick
    /\ score = pre.score + 10
    /\ Abs(pre.ball.vx) # Px(180)
    /\ \/ ball.vx = -pre.ball.vx /\ ball.vy = pre.ball.vy
       \/ ball.vx = pre.ball.vx /\ ball.vy = -pre.ball.vy

\* C16: at the end of every frame that ran in mode playing the ball is inside
\* the side walls and below the top: r <= ball.x <= GAME_W - r and
\* ball.y >= r.
C16_BallInsideWalls ==
    Tick =>
        /\ ball.r <= ball.x
        /\ ball.x <= Px(GAME_W) - ball.r
        /\ ball.y >= ball.r

\* how far v is beyond the numbers lo..hi: negative below lo, positive above
\* hi, 0 among them
Gap(v, lo, hi) == IF v < lo THEN v - lo ELSE IF v > hi THEN v - hi ELSE 0

\* C17: on an overlap with the centre outside the rectangle the ball is
\* corrected along x only when r - |dx| is strictly smaller than r - |dy|,
\* else along y; it is moved by the overlap + 0.5 away from the rectangle on
\* that axis, that velocity component is negated, and the other coordinate
\* and component stay.  With the centre inside, the ball is put r + 0.5
\* beyond the nearest edge, the first of left, right, top, bottom among
\* equals, and only that axis's velocity component is set, pointing away.
C17_AxisChoice ==
    (last.op = "reflect" /\ last.arg = TRUE) =>
        LET b == pre.ball
            rect == pre.paddle
            dx == Gap(b.x, rect.x, rect.x + rect.w)
            dy == Gap(b.y, rect.y, rect.y + rect.h)
            left == b.x - rect.x
            right == rect.x + rect.w - b.x
            top == b.y - rect.y
            bottom == rect.y + rect.h - b.y
        IN  IF dx # 0 \/ dy # 0
            THEN IF b.r - Abs(dx) < b.r - Abs(dy)
                 THEN /\ Abs(ball.x - b.x) = b.r - Abs(dx) + Half
                      /\ (ball.x > b.x) = (dx > 0)
                      /\ ball.vx = -b.vx
                      /\ ball.y = b.y /\ ball.vy = b.vy
                 ELSE /\ Abs(ball.y - b.y) = b.r - Abs(dy) + Half
                      /\ (ball.y > b.y) = (dy > 0)
                      /\ ball.vy = -b.vy
                      /\ ball.x = b.x /\ ball.vx = b.vx
            ELSE IF left <= right /\ left <= top /\ left <= bottom
                 THEN /\ ball.x = rect.x - b.r - Half /\ ball.vx = -Abs(b.vx)
                      /\ ball.y = b.y /\ ball.vy = b.vy
            ELSE IF right <= top /\ right <= bottom
                 THEN /\ ball.x = rect.x + rect.w + b.r + Half /\ ball.vx = Abs(b.vx)
                      /\ ball.y = b.y /\ ball.vy = b.vy
            ELSE IF top <= bottom
                 THEN /\ ball.y = rect.y - b.r - Half /\ ball.vy = -Abs(b.vy)
                      /\ ball.x = b.x /\ ball.vx = b.vx
                 ELSE /\ ball.y = rect.y + rect.h + b.r + Half /\ ball.vy = Abs(b.vy)
                      /\ ball.x = b.x /\ ball.vx = b.vx

\* a ball off a corner of the rectangle, as far from it along x as along y,
\* overlapped it and was corrected along y
C17_Witness ==
    /\ last.op = "reflect"
    /\ last.arg = TRUE
    /\ Gap(pre.ball.x, pre.paddle.x, pre.paddle.x + pre.paddle.w) # 0
    /\ Abs(Gap(pre.ball.x, pre.paddle.x, pre.paddle.x + pre.paddle.w))
           = Abs(Gap(pre.ball.y, pre.paddle.y, pre.paddle.y + pre.paddle.h))
    /\ ball.x = pre.ball.x
    /\ ball.y # pre.ball.y

\* C18: lives is 1, 2 or 3 whenever the mode is playing, is never negative,
\* and is 0 whenever the mode is lose.
C18_LivesRange ==
    /\ state = "playing" => lives \in {1, 2, 3}
    /\ lives >= 0
    /\ state = "lose" => lives = 0

\* a lost game, with no lives left, was started again and has 3 lives
C18_Witness ==
    /\ StartTrigger
    /\ pre.state = "lose"
    /\ pre.lives = 0
    /\ state = "playing"
    /\ lives = 3

\* C19: whenever a pointermove changes paddle.targetX, a pointerdown handled
\* in mode playing began the drag in the current game, and input.grabOffset
\* is the offset between the pointer and the paddle's centre recorded at
\* that pointerdown; a start trigger leaves no drag active.
C19_DragOfThisGame ==
    /\ (last.op = "pointermove" /\ paddle.targetX # pre.paddle.targetX) =>
           /\ last.drag.begun
           /\ pre.input.grabOffset = last.drag.offset
    /\ StartTrigger => ~input.pointerActive

\* C20: the score is always 10 times the number of inactive bricks of the
\* current grid, so between 0 and 400, and 400 whenever the mode is win.
C20_ScoreCountsBricks ==
    /\ score = 10 * (Len(bricks) - Cardinality(ActiveIn(bricks)))
    /\ 0 <= score /\ score <= 400
    /\ state = "win" => score = 400

\* a frame deactivated the last brick of the grid: the score went from 390
\* to 400 and the game was won
C20_Witness ==
    /\ Tick
    /\ pre.score = 390
    /\ Cardinality(ActiveIn(pre.bricks)) = 1
    /\ score = 400
    /\ state = "win"

=============================================================================
